---- MODULE Spec2Model ----
(***************************************************************************)
(* Mini Weather Station (app.py): one Streamlit script run per invocation. *)
(* An invocation queries the time-series engine twice through the cached   *)
(* helper query_flux, extracts the latest values, shows the comfort badge, *)
(* derives the vibration RMS and the motion flag, raises the alerts, then  *)
(* sleeps refresh_s seconds and reruns.                                    *)
(*                                                                         *)
(* Numbers are fixed point, in hundredths of the unit the script uses      *)
(* (27 degrees is 2700, 9.81 m/s2 is 981, a threshold of 1.5 is 150).      *)
(* A float64 is a record [k, n]: k is "num" (then n is the value), "nan",  *)
(* "inf" or "ninf".                                                        *)
(***************************************************************************)
EXTENDS Integers, Sequences, FiniteSets, TLC

VARIABLES
    pc,            \* position of the script: the section it runs next
    rango,         \* sidebar: time range (part of both query texts)
    suav_env,      \* sidebar: smoothing window of the environment query
    suav_mpu,      \* sidebar: smoothing window of the motion query
    umbral_hi,     \* sidebar: thermal index alert threshold
    hum_min,       \* sidebar: humidity band, lower edge
    hum_max,       \* sidebar: humidity band, upper edge
    vib_thr,       \* sidebar: vibration RMS alert threshold
    refresh_s,     \* sidebar: seconds between automatic reruns
    engine,        \* what q.query_data_frame returns now, per measurement
    engine_up,     \* whether the engine can be reached (else the call raises)
    cache,         \* st.cache_data store of query_flux: query text -> entry
    fetched,       \* per measurement, the raw result the engine returned to
                   \* this invocation (NotFetched when it returned none)
    df_dht,        \* normalized environment rows of this invocation
    df_mpu,        \* normalized motion rows of this invocation
    temp_now,      \* latest temperature
    hum_now,       \* latest humidity
    hi_now,        \* latest thermal index
    comfort,       \* text of the comfort badge in column k3
    vib_rms_now,   \* latest vibration RMS
    mov_flag_now,  \* latest motion flag, 0 or 1
    vib_df,        \* the vibration RMS series handed to the chart
    mov_df,        \* the motion flag series handed to the chart
    charts,        \* whether the two vibration charts were drawn
    alertas,       \* the alerts raised by this invocation
    error          \* the exception that ended the script, "none" otherwise

vars == << pc, rango, suav_env, suav_mpu, umbral_hi, hum_min, hum_max, vib_thr,
           refresh_s, engine, engine_up, cache, fetched, df_dht, df_mpu,
           temp_now, hum_now, hi_now, comfort, vib_rms_now, mov_flag_now,
           vib_df, mov_df, charts, alertas, error >>

----------------------------------------------------------------------------
(* float64 values *)

Num(n) == [k |-> "num", n |-> n]
NaN    == [k |-> "nan", n |-> 0]
PosInf == [k |-> "inf", n |-> 0]
NegInf == [k |-> "ninf", n |-> 0]

\* np.isfinite
isfinite(x) == x.k = "num"

\* x < y on float64: every comparison with NaN is false
FLt(x, y) ==
    CASE x.k = "nan" \/ y.k = "nan" -> FALSE
      [] x.k = "ninf" -> y.k # "ninf"
      [] x.k = "inf"  -> FALSE
      [] y.k = "inf"  -> TRUE
      [] y.k = "ninf" -> FALSE
      [] OTHER        -> x.n < y.n

\* x > y on float64
FGt(x, y) == FLt(y, x)

\* x <= y on float64
FLe(x, y) == x.k # "nan" /\ y.k # "nan" /\ ~FLt(y, x)

\* F of the value of x, x evaluated once
Let(x, F(_)) == CHOOSE r \in { F(v) : v \in {x} } : TRUE

\* floor of the square root of a natural number, by bisection
RECURSIVE SqrtIter(_, _, _)
SqrtIter(x, lo, hi) ==
    IF lo >= hi THEN lo
    ELSE LET mid == (lo + hi + 1) \div 2
         IN  IF mid * mid <= x THEN SqrtIter(x, mid, hi)
                               ELSE SqrtIter(x, lo, mid - 1)

\* the upper end of the bisection keeps mid * mid within 32 bits.  Roots
\* and means are rounded down to the hundredth.
ISqrt(x) == SqrtIter(x, 0, IF x < 46340 THEN x ELSE 46340)

----------------------------------------------------------------------------
(* The two queries and the shape of what the engine returns.               *)
(* A raw result is [kind, has_time, tables]: kind "frame" is one DataFrame *)
(* (tables holds its rows as one table), kind "list" is a Python list of   *)
(* DataFrames, kind "none" is None.  has_time says whether the "_time"     *)
(* column exists.  A raw row is [_time, _field, _value]: _time is a cell   *)
(* [k, n] with k "ts" (a timestamp n) or "nat"/"str"/"none" (missing or    *)
(* unparseable); _value is a float64 or a cell of kind "str" (text that is *)
(* no number) or "none"; _field is a field name or NA_FIELD.               *)

NA_FIELD == "<NA>"

DHT == "studio-dht22"
MPU == "mpu6050"
Measurements == {DHT, MPU}

ACCEL == {"accel_x", "accel_y", "accel_z"}

\* the query text: what the cache keys on
flux_dht == << DHT, rango, suav_env >>
flux_mpu == << MPU, rango, suav_mpu >>

Ts(t) == [k |-> "ts", n |-> t]
BadTime == [k |-> "str", n |-> 0]
BadValue == [k |-> "str", n |-> 0]

RawRow(t, f, v) == [_time |-> t, _field |-> f, _value |-> v]
Frame(rows) == [kind |-> "frame", has_time |-> TRUE, tables |-> << rows >>]
NoColumns == [kind |-> "frame", has_time |-> FALSE, tables |-> << <<>> >>]
TableList(ts) == [kind |-> "list", has_time |-> TRUE, tables |-> ts]

RECURSIVE Concat(_)
Concat(ts) == IF ts = <<>> THEN <<>> ELSE Head(ts) \o Concat(Tail(ts))

\* pd.to_datetime(errors="coerce")
to_datetime(c) == IF c.k = "ts" THEN c ELSE [k |-> "nat", n |-> 0]

\* pd.to_numeric(errors="coerce")
to_numeric(c) == IF c.k \in {"num", "inf", "ninf"} THEN [k |-> c.k, n |-> c.n] ELSE NaN

\* line 59-61: the three columns, renamed and coerced
Coerce(r) == [Tiempo |-> to_datetime(r._time), Variable |-> r._field,
              Valor |-> to_numeric(r._value)]

\* what DataFrame.dropna() keeps: no NaT, no missing field, no NaN
NotNa(r) == r.Tiempo.k # "nat" /\ r.Variable # NA_FIELD /\ r.Valor.k # "nan"

\* a normalized row: the timestamp as a number
Row(r) == [Tiempo |-> r.Tiempo.n, Variable |-> r.Variable, Valor |-> r.Valor]

\* lines 60-62: coerce the columns, then dropna()
dropna(rows) ==
    Let(SelectSeq([i \in 1..Len(rows) |-> Coerce(rows[i])], NotNa),
        LAMBDA kept : [i \in 1..Len(kept) |-> Row(kept[i])])

\* the rows in ascending Tiempo, rows of equal Tiempo in their input order
StableSort(rows) ==
    Let([i \in 1..Len(rows) |->
           Cardinality({ j \in 1..Len(rows) : \/ rows[j].Tiempo < rows[i].Tiempo
                                              \/ /\ rows[j].Tiempo = rows[i].Tiempo
                                                 /\ j <= i })],
        LAMBDA rank : [k \in 1..Len(rows) |-> rows[CHOOSE i \in 1..Len(rows) : rank[i] = k]])

\* the positions of s that hold rows of the Tiempo and Variable of s[i]
Twins(s, i) == { j \in 1..Len(s) : /\ s[j].Tiempo = s[i].Tiempo
                                   /\ s[j].Variable = s[i].Variable }

\* sort_values("Tiempo") uses an unstable sort: rows with equal Tiempo may
\* come out in any order.  The order of two rows that tie on Tiempo and
\* differ in Variable is read by nothing downstream (every reader selects
\* by Variable first), so those keep the input order; rows that tie on
\* Tiempo and on Variable come out in every order.  todo holds the
\* positions whose twins are still to be ordered.
RECURSIVE TieOrders(_, _)
TieOrders(s, todo) ==
    IF todo = {} THEN { s }
    ELSE LET i == CHOOSE i \in todo : TRUE
             g == Twins(s, i)
         IN  UNION { UNION { TieOrders(t, todo \ g)
                             : t \in { [k \in 1..Len(s) |-> IF k \in g THEN s[p[k]]
                                                                       ELSE s[k]] } }
                     : p \in Permutations(g) }

\* the rows left in the order the engine returned them
sort_values_Unsorted(rows) == { rows }

sort_values(rows) ==
    UNION { TieOrders(s, { i \in 1..Len(s) : Cardinality(Twins(s, i)) > 1 })
            : s \in { Let(rows, StableSort) } }

\* query_flux, lines 54-62, on what q.query_data_frame returned: the
\* exception it ends with ("none" when it returns) and the DataFrames it
\* may return
query_flux(raw) ==
    LET concat == raw.kind = "list" /\ Len(raw.tables) > 0           \* line 56
        empty  == [err |-> "none", dfs |-> { <<>> }]
    IN  Let(IF concat THEN Concat(raw.tables)
            ELSE IF raw.kind = "frame" THEN raw.tables[1] ELSE <<>>, LAMBDA rows :
        IF raw.kind = "none" THEN empty                              \* line 57
        ELSE IF raw.kind = "list" /\ ~concat
             THEN [err |-> "AttributeError", dfs |-> {}]             \* [].empty
        ELSE IF rows = <<>> \/ ~raw.has_time THEN empty
        ELSE [err |-> "none", dfs |-> Let(Let(rows, dropna), sort_values)])

----------------------------------------------------------------------------
(* Latest values and the comfort badge, lines 94-114 *)

\* df.groupby("Variable").tail(1).set_index("Variable")["Valor"].get(f, nan):
\* the Valor of the last row of field f, NaN when f has no row
LastOf(df, f) ==
    LET at == { i \in 1..Len(df) : df[i].Variable = f }
    IN  IF at = {} THEN NaN
        ELSE df[CHOOSE i \in at : \A j \in at : j <= i].Valor

\* the badge with the caution band tried before the comfortable band
badge_k3_CautionFirst(hi, hum, umbral) ==
    IF ~isfinite(hi) \/ ~isfinite(hum) THEN "Sin datos"
    ELSE IF FLe(hi, Num(umbral)) /\ FLe(Num(2500), hum) /\ FLe(hum, Num(7000))
         THEN "Precaucion"
    ELSE IF FLe(hi, Num(2700)) /\ FLe(Num(3000), hum) /\ FLe(hum, Num(6000))
         THEN "Confortable"
    ELSE "Alerta termica"

\* lines 106-114: the text of the badge
badge_k3(hi, hum, umbral) ==
    IF ~isfinite(hi) \/ ~isfinite(hum) THEN "Sin datos"
    ELSE IF FLe(hi, Num(2700)) /\ FLe(Num(3000), hum) /\ FLe(hum, Num(6000))
         THEN "Confortable"
    ELSE IF FLe(hi, Num(umbral)) /\ FLe(Num(2500), hum) /\ FLe(hum, Num(7000))
         THEN "Precaucion"
    ELSE "Alerta termica"

----------------------------------------------------------------------------
(* Vibration, lines 137-153 *)

GRAVITY == 981
WINDOW == 20
MIN_PERIODS == 5

\* line 137: any(df_mpu["Variable"].isin([...]))
HasAccel(df) == \E i \in 1..Len(df) : df[i].Variable \in ACCEL

IsAccel(r) == r.Variable \in ACCEL

\* line 140
acc_rows(df) == SelectSeq(df, IsAccel)

\* DataFrame.pivot raises ValueError when two rows share index and column
HasDuplicate(acc) ==
    \E i, j \in 1..Len(acc) : /\ i < j
                              /\ acc[i].Tiempo = acc[j].Tiempo
                              /\ acc[i].Variable = acc[j].Variable

\* the columns of the pivot: the fields that occur in acc
PivotColumns(acc) == { acc[i].Variable : i \in 1..Len(acc) }

\* the index of the pivot: the distinct Tiempo values, ascending
PivotIndex(acc) ==
    Let({ acc[i].Tiempo : i \in 1..Len(acc) }, LAMBDA ts :
        [k \in 1..Cardinality(ts) |->
           CHOOSE t \in ts : Cardinality({ u \in ts : u < t }) = k - 1])

\* one cell of the pivot: the Valor at (t, c), NaN when there is no such row
PivotCell(acc, t, c) ==
    IF \E i \in 1..Len(acc) : acc[i].Tiempo = t /\ acc[i].Variable = c
    THEN acc[CHOOSE i \in 1..Len(acc) : acc[i].Tiempo = t /\ acc[i].Variable = c].Valor
    ELSE NaN

\* a row of the pivot that dropna() keeps: no cell is NaN
Complete(p) == \A c \in DOMAIN p.cells : p.cells[c].k # "nan"

\* line 141: acc.pivot(...).dropna(), as the sequence of its rows
\* [Tiempo, cells], cells a function from the columns to float64
piv(acc) ==
    Let(PivotColumns(acc), LAMBDA cols :
    Let(PivotIndex(acc), LAMBDA index :
        SelectSeq([k \in 1..Len(index) |->
                     [Tiempo |-> index[k],
                      cells |-> [c \in cols |-> PivotCell(acc, index[k], c)]]],
                  Complete)))

RECURSIVE SumSq(_, _)
SumSq(cells, cols) ==
    IF cols = {} THEN 0
    ELSE LET c == CHOOSE c \in cols : TRUE
         IN  cells[c].n * cells[c].n + SumSq(cells, cols \ {c})

\* line 142: np.sqrt((piv**2).sum(axis=1)); an infinite cell gives inf
a_mag(p) ==
    IF \E c \in DOMAIN p.cells : ~isfinite(p.cells[c]) THEN PosInf
    ELSE Num(ISqrt(SumSq(p.cells, DOMAIN p.cells)))

\* line 143: np.maximum(a_mag - 9.81, 0)
a_dyn(m) ==
    IF ~isfinite(m) THEN PosInf
    ELSE IF m.n - GRAVITY > 0 THEN Num(m.n - GRAVITY) ELSE Num(0)

\* a_dyn**2
Square(d) == IF ~isfinite(d) THEN PosInf ELSE Num(d.n * d.n)

RECURSIVE SumOver(_, _)
SumOver(sq, js) ==
    IF js = {} THEN 0
    ELSE LET j == CHOOSE j \in js : TRUE
         IN  sq[j].n + SumOver(sq, js \ {j})

\* line 144 at position i: .rolling(20, min_periods=5).mean()**0.5 over the
\* squares sq.  The rolling mean reads an infinite value as missing.
rolling_rms(sq, i) ==
    Let({ j \in (IF i - WINDOW + 1 > 1 THEN i - WINDOW + 1 ELSE 1)..i : isfinite(sq[j]) },
        LAMBDA obs : IF Cardinality(obs) >= MIN_PERIODS
                     THEN Num(ISqrt(SumOver(sq, obs) \div Cardinality(obs)))
                     ELSE NaN)

\* line 144-145: vib_df, one row [Tiempo, vib_rms] per row of piv
vib_rms(p) ==
    Let([i \in 1..Len(p) |-> Square(a_dyn(a_mag(p[i])))], LAMBDA sq :
        [i \in 1..Len(p) |-> [Tiempo |-> p[i].Tiempo, vib_rms |-> rolling_rms(sq, i)]])

\* the flag as "not below the threshold": set for an undefined RMS too
MovFlag_NotBelow(rms, thr) == IF ~FLt(rms, Num(thr)) THEN 1 ELSE 0

\* line 148: (vib_rms > vib_thr).astype(int) at one entry
MovFlag(rms, thr) == IF FGt(rms, Num(thr)) THEN 1 ELSE 0

\* line 148-149: mov_df, one row [Tiempo, movimiento] per row of vib_rms
mov_flag(v, thr) ==
    [i \in 1..Len(v) |-> [Tiempo |-> v[i].Tiempo,
                          movimiento |-> MovFlag(v[i].vib_rms, thr)]]

----------------------------------------------------------------------------
(* Alerts, lines 166-171 *)

AlertHi(hi, umbral) == isfinite(hi) /\ FGt(hi, Num(umbral))
AlertHum(hum, lo, up) == isfinite(hum) /\ (FLt(hum, Num(lo)) \/ FGt(hum, Num(up)))
AlertVib(rms, thr) == isfinite(rms) /\ FGt(rms, Num(thr))

Alertas(hi, hum, rms, umbral, lo, up, thr) ==
    (IF AlertHi(hi, umbral) THEN {"hi"} ELSE {})
      \cup (IF AlertHum(hum, lo, up) THEN {"hum"} ELSE {})
      \cup (IF AlertVib(rms, thr) THEN {"vib"} ELSE {})

----------------------------------------------------------------------------
(* The cache of query_flux, line 53: @st.cache_data(ttl=5).  An entry is  *)
(* [df, age]: the DataFrame returned and the seconds since it was stored.  *)
(* An entry is served while its age is below the time to live; older       *)
(* entries are gone.                                                       *)

TTL == 5

NotFetched == [kind |-> "unfetched", has_time |-> FALSE, tables |-> <<>>]

\* the store after d more seconds
AgeBy(c, d) ==
    LET live == { q \in DOMAIN c : c[q].age + d < TTL }
    IN  [q \in live |-> [df |-> c[q].df, age |-> c[q].age + d]]

\* the store with the entry of query text q set to e
Store(c, q, e) == [x \in DOMAIN c \cup {q} |-> IF x = q THEN e ELSE c[x]]

\* a call query_flux(q) of measurement m, lines 53-62 with the cache around
\* them: the outcomes [err, df, cache, fetched] it can have.  A hit returns
\* the stored DataFrame without asking the engine; a miss asks the engine,
\* whose failure propagates, and stores what the body returns.
CallQueryFlux(q, m) ==
    IF q \in DOMAIN cache
    THEN { [err |-> "none", df |-> cache[q].df, cache |-> cache, fetched |-> fetched] }
    ELSE IF ~engine_up
    THEN { [err |-> "ApiException", df |-> <<>>, cache |-> cache, fetched |-> fetched] }
    ELSE Let(query_flux(engine[m]), LAMBDA r :
         Let([fetched EXCEPT ![m] = engine[m]], LAMBDA got :
             IF r.err # "none"
             THEN { [err |-> r.err, df |-> <<>>, cache |-> cache, fetched |-> got] }
             ELSE { [err |-> "none", df |-> d,
                     cache |-> Store(cache, q, [df |-> d, age |-> 0]),
                     fetched |-> got] : d \in r.dfs }))

----------------------------------------------------------------------------
(* The script, one action per section *)

controls == << rango, suav_env, suav_mpu, umbral_hi, hum_min, hum_max, vib_thr,
               refresh_s >>
kpis     == << temp_now, hum_now, hi_now, comfort >>
motion   == << vib_rms_now, mov_flag_now, vib_df, mov_df, charts >>
outside  == << engine, engine_up >>

\* the values the script's names have before any section has run
Fresh ==
    /\ pc = "dht"
    /\ fetched = [m \in Measurements |-> NotFetched]
    /\ df_dht = <<>>
    /\ df_mpu = <<>>
    /\ temp_now = NaN
    /\ hum_now = NaN
    /\ hi_now = NaN
    /\ comfort = ""
    /\ vib_rms_now = NaN
    /\ mov_flag_now = 0
    /\ vib_df = <<>>
    /\ mov_df = <<>>
    /\ charts = FALSE
    /\ alertas = {}
    /\ error = "none"

\* the script starts from its top: every name is as before its first run
Restart ==
    /\ pc' = "dht"
    /\ fetched' = [m \in Measurements |-> NotFetched]
    /\ df_dht' = <<>>
    /\ df_mpu' = <<>>
    /\ temp_now' = NaN
    /\ hum_now' = NaN
    /\ hi_now' = NaN
    /\ comfort' = ""
    /\ vib_rms_now' = NaN
    /\ mov_flag_now' = 0
    /\ vib_df' = <<>>
    /\ mov_df' = <<>>
    /\ charts' = FALSE
    /\ alertas' = {}
    /\ error' = "none"

\* line 77: df_dht = query_flux(flux_dht)
QueryDht ==
    /\ pc = "dht"
    /\ \E o \in CallQueryFlux(flux_dht, DHT) :
          /\ cache' = o.cache
          /\ fetched' = o.fetched
          /\ df_dht' = o.df
          /\ error' = o.err
          /\ pc' = IF o.err = "none" THEN "mpu" ELSE "halted"
    /\ UNCHANGED << controls, outside, df_mpu, kpis, motion, alertas >>

\* line 88: df_mpu = query_flux(flux_mpu)
QueryMpu ==
    /\ pc = "mpu"
    /\ \E o \in CallQueryFlux(flux_mpu, MPU) :
          /\ cache' = o.cache
          /\ fetched' = o.fetched
          /\ df_mpu' = o.df
          /\ error' = o.err
          /\ pc' = IF o.err = "none" THEN "kpi" ELSE "halted"
    /\ UNCHANGED << controls, outside, df_dht, kpis, motion, alertas >>

\* lines 91-118: the latest values, the comfort badge, and the defaults of
\* the current motion values
Kpis ==
    /\ pc = "kpi"
    /\ temp_now' = LastOf(df_dht, "temperatura")
    /\ hum_now' = LastOf(df_dht, "humedad")
    /\ hi_now' = LastOf(df_dht, "sensacion_termica")
    /\ comfort' = badge_k3(hi_now', hum_now', umbral_hi)
    /\ vib_rms_now' = NaN
    /\ mov_flag_now' = 0
    /\ pc' = "vib"
    /\ UNCHANGED << controls, outside, cache, fetched, df_dht, df_mpu, vib_df,
                    mov_df, charts, alertas, error >>

\* lines 136-163: the vibration RMS, the motion flag and their charts
Vibracion ==
    /\ pc = "vib"
    /\ IF df_mpu = <<>> \/ ~HasAccel(df_mpu)
       THEN /\ pc' = "alertas"
            /\ UNCHANGED << motion, error >>
       ELSE IF Let(acc_rows(df_mpu), HasDuplicate)
       THEN /\ pc' = "halted"
            /\ error' = "ValueError"
            /\ UNCHANGED motion
       ELSE \E v \in { Let(Let(acc_rows(df_mpu), piv), vib_rms) } :
            \E m \in { mov_flag(v, vib_thr) } :
                /\ vib_df' = v
                /\ mov_df' = m
                /\ vib_rms_now' = IF v # <<>> THEN v[Len(v)].vib_rms ELSE vib_rms_now
                /\ mov_flag_now' = IF v # <<>> THEN m[Len(m)].movimiento ELSE mov_flag_now
                /\ charts' = (v # <<>>)
                /\ pc' = "alertas"
                /\ UNCHANGED error
    /\ UNCHANGED << controls, outside, cache, fetched, df_dht, df_mpu, kpis, alertas >>

\* lines 165-171
Alertar ==
    /\ pc = "alertas"
    /\ alertas' = Alertas(hi_now, hum_now, vib_rms_now, umbral_hi, hum_min, hum_max,
                          vib_thr)
    /\ pc' = "sleep"
    /\ UNCHANGED << controls, outside, cache, fetched, df_dht, df_mpu, kpis, motion,
                    error >>

\* line 175: time.sleep(refresh_s)
Sleep ==
    /\ pc = "sleep"
    /\ cache' = AgeBy(cache, refresh_s)
    /\ pc' = "rerun"
    /\ UNCHANGED << controls, outside, fetched, df_dht, df_mpu, kpis, motion, alertas,
                    error >>

\* line 176: st.experimental_rerun() starts the script again from its top
Rerun ==
    /\ pc = "rerun"
    /\ Restart
    /\ UNCHANGED << controls, outside, cache >>

Run == QueryDht \/ QueryMpu \/ Kpis \/ Vibracion \/ Alertar \/ Sleep \/ Rerun

----------------------------------------------------------------------------
(* What the engine holds: rows built from sensor samples *)

\* one reading of the DHT22 at time t: thermal index hi and humidity hum,
\* each a float64 or NaN for a field the engine has no row of at t
DhtRows(t, hi, hum) ==
    (IF hi.k = "nan" THEN <<>> ELSE << RawRow(Ts(t), "sensacion_termica", hi) >>)
      \o (IF hum.k = "nan" THEN <<>> ELSE << RawRow(Ts(t), "humedad", hum) >>)

\* one reading of the MPU6050 at time t.  still: at rest, gravity on z;
\* jolt: 10 m/s2 on top of gravity; partial: no accel_z at t; inf: an
\* infinite accel_z; xonly: accel_x alone; dup: accel_x twice; temp: the chip
\* temperature alone
Sample(t, kind) ==
    LET x(v) == RawRow(Ts(t), "accel_x", v)
        y(v) == RawRow(Ts(t), "accel_y", v)
        z(v) == RawRow(Ts(t), "accel_z", v)
    IN  CASE kind = "still"   -> << x(Num(0)), y(Num(0)), z(Num(981)) >>
          [] kind = "jolt"    -> << x(Num(0)), y(Num(0)), z(Num(1981)) >>
          [] kind = "partial" -> << x(Num(0)), y(Num(0)) >>
          [] kind = "inf"     -> << x(Num(0)), y(Num(0)), z(PosInf) >>
          [] kind = "xonly"   -> << x(Num(1981)) >>
          [] kind = "dup"     -> << x(Num(0)), y(Num(0)), z(Num(981)), x(Num(300)) >>
          [] kind = "temp"    -> << RawRow(Ts(t), "temperature", Num(2500)) >>

SampleKinds == {"still", "jolt", "partial", "inf", "xonly", "dup", "temp"}

\* n readings of one kind at times t, t+1, ...
Burst(t, n, kind) ==
    LET len == Len(Sample(t, kind))
    IN  [i \in 1..(n * len) |-> Sample(t + (i - 1) \div len, kind)[((i - 1) % len) + 1]]

\* n1 readings of kind k1, then n2 readings of kind k2
MpuFeed(k1, n1, k2, n2) == Frame(Burst(1, n1, k1) \o Burst(n1 + 1, n2, k2))

Engine(d, m) == [x \in Measurements |-> IF x = DHT THEN d ELSE m]

----------------------------------------------------------------------------
(* The sidebar: the values the thresholds are drawn from *)

UmbralHis == {2500, 3000, 4000}
HumBands  == { << 3000, 7500 >>, << 1000, 9000 >>, << 5000, 6000 >> }
VibThrs   == {50, 150, 300}

\* the sidebar with its thresholds at chosen values, the rest as the
\* script first shows it, lines 43-50
Sidebar(umbrales, bandas, vibs) ==
    /\ rango = "12h"
    /\ suav_env = "30s"
    /\ suav_mpu = "200ms"
    /\ umbral_hi \in umbrales
    /\ \E b \in bandas : hum_min = b[1] /\ hum_max = b[2]
    /\ vib_thr \in vibs
    /\ refresh_s = 15

\* the sidebar as the script first shows it
Defaults == Sidebar({3000}, { << 3000, 7500 >> }, {150})

EmptyCache == [q \in {} |-> [df |-> <<>>, age |-> 0]]

\* the first invocation of a session, the engine holding one of feeds
Start(feeds) ==
    /\ engine \in feeds
    /\ engine_up = TRUE
    /\ cache = EmptyCache
    /\ Fresh

----------------------------------------------------------------------------
(* The surroundings of the script: time, the engine, the operator *)

\* a second passes while the script runs (a query or a chart takes time)
Tick ==
    /\ pc \notin {"sleep", "halted"}
    /\ cache # EmptyCache
    /\ cache' = AgeBy(cache, 1)
    /\ UNCHANGED << pc, controls, outside, fetched, df_dht, df_mpu, kpis, motion,
                    alertas, error >>

\* the feeds the engine moves between in the refresh loop
CalmDht == Frame(<< RawRow(Ts(1), "temperatura", Num(2400)) >>
                   \o DhtRows(1, Num(2500), Num(5000)))
HotDht  == Frame(<< RawRow(Ts(1), "temperatura", Num(2400)) >>
                   \o DhtRows(1, Num(2500), Num(5000))
                   \o << RawRow(Ts(2), "temperatura", Num(3300)) >>
                   \o DhtRows(2, Num(3600), Num(8000)))
MinLoopSamples == 5
LoopFeeds == { Engine(CalmDht, MpuFeed("still", MinLoopSamples, "still", 0)),
               Engine(HotDht, MpuFeed("still", MinLoopSamples, "jolt", 1)) }

\* new rows reach the engine
EngineWrite ==
    /\ \E e \in LoopFeeds : e # engine /\ engine' = e
    /\ UNCHANGED << pc, controls, engine_up, cache, fetched, df_dht, df_mpu, kpis,
                    motion, alertas, error >>

\* the engine becomes unreachable, or reachable again
EngineOutage ==
    /\ engine_up' = ~engine_up
    /\ UNCHANGED << pc, controls, engine, cache, fetched, df_dht, df_mpu, kpis,
                    motion, alertas, error >>

\* the operator changes a control: Streamlit starts the script again with
\* the new value, at once when the script is running or has ended, and at
\* the rerun when it is in time.sleep.  The vibration threshold stands for
\* the controls: it is no part of a query text, so the restarted script
\* asks for the same two query texts.
WidgetChange ==
    /\ pc # "sleep"
    /\ \E t \in {50, 150} : t # vib_thr /\ vib_thr' = t
    /\ Restart
    /\ UNCHANGED << rango, suav_env, suav_mpu, umbral_hi, hum_min, hum_max,
                    refresh_s, outside, cache >>

Env == Tick \/ EngineWrite \/ EngineOutage \/ WidgetChange

----------------------------------------------------------------------------
(* The refresh loop *)

Init == Defaults /\ Start(LoopFeeds)

Next == Run \/ Env

Spec == Init /\ [][Next]_vars

\* a session the operator leaves alone: no control changes.  The script
\* runs on by itself; time and the engine owe nothing.
Unattended == Run \/ Tick \/ EngineWrite \/ EngineOutage

SpecUnattended == Init /\ [][Unattended]_vars /\ WF_vars(Run)

----------------------------------------------------------------------------
(* Single invocations over families of engine contents.  The engine and    *)
(* the sidebar stay as the first state has them; the script runs, sleeps   *)
(* and reruns.                                                             *)

NoRows == Frame(<<>>)

\* the latest thermal index and humidity around every edge of the bands,
\* NaN for a field without rows
HiNow  == { NaN, Num(2650), Num(2700), Num(2750), Num(3000), Num(3050), Num(4050),
            PosInf }
HumNow == { NaN, Num(900), Num(2450), Num(2500), Num(2950), Num(3000), Num(6000),
            Num(6050), Num(7000), Num(7050), Num(9100), NegInf }

\* motion rows whose latest RMS is absent, 0, 2.23 and 10
RmsFeeds == { NoRows, MpuFeed("still", 5, "still", 0), MpuFeed("jolt", 1, "still", 19),
              MpuFeed("jolt", 5, "still", 0) }

ClasificarFeeds ==
    { Engine(Frame(DhtRows(1, hi, hum)), m) : hi \in HiNow, hum \in HumNow, m \in RmsFeeds }

InitClasificar == Sidebar(UmbralHis, HumBands, VibThrs) /\ Start(ClasificarFeeds)

SpecClasificar == InitClasificar /\ [][Run]_vars

\* the script is past its KPI section: the badge is on the page
BadgeShown ==
    \/ pc \in {"vib", "alertas", "sleep", "rerun"}
    \/ pc = "halted" /\ error = "ValueError"

\* the script is past its alert section
AlertsShown == pc \in {"sleep", "rerun"}

\* C1: whenever the badge is shown for a thermal index and a humidity that
\* are each absent or finite, its text is the first match of: either absent
\* -> "Sin datos"; hi <= 27 and 30 <= hum <= 60 -> "Confortable";
\* hi <= umbral_hi and 25 <= hum <= 70 -> "Precaucion"; else "Alerta termica".
C1_ComfortFirstMatch ==
    (BadgeShown /\ hi_now.k \in {"nan", "num"} /\ hum_now.k \in {"nan", "num"}) =>
        comfort =
            IF hi_now.k = "nan" \/ hum_now.k = "nan" THEN "Sin datos"
            ELSE IF hi_now.n <= 2700 /\ 3000 <= hum_now.n /\ hum_now.n <= 6000
                 THEN "Confortable"
            ELSE IF hi_now.n <= umbral_hi /\ 2500 <= hum_now.n /\ hum_now.n <= 7000
                 THEN "Precaucion"
            ELSE "Alerta termica"

\* C1 witness: an input inside both bands is shown as comfortable
C1_Witness ==
    /\ pc = "sleep"
    /\ comfort = "Confortable"
    /\ hi_now = Num(2700) /\ hum_now = Num(6000)
    /\ hi_now.n <= umbral_hi

\* C2 as claimed: each alert is raised exactly when its own input is present
\* and beyond its threshold (a present value is any value but the absence
\* marker)
C2_AlertsIffPresentAndBeyond ==
    AlertsShown =>
        /\ "hi" \in alertas  <=> (hi_now.k # "nan" /\ FGt(hi_now, Num(umbral_hi)))
        /\ "hum" \in alertas <=> (hum_now.k # "nan" /\ (\/ FLt(hum_now, Num(hum_min))
                                                        \/ FGt(hum_now, Num(hum_max))))
        /\ "vib" \in alertas <=> (vib_rms_now.k # "nan" /\ FGt(vib_rms_now, Num(vib_thr)))

----------------------------------------------------------------------------
(* Single invocations over every short sequence of raw environment rows,   *)
(* in every shape q.query_data_frame returns them                          *)

MaxRows == 2

DhtFields == {"temperatura", "humedad", "sensacion_termica"}

NoTime  == [k |-> "none", n |-> 0]
NoValue == [k |-> "none", n |-> 0]

\* well-formed rows
GoodRows == { RawRow(Ts(t), f, Num(v)) : t \in {1, 2}, f \in DhtFields, v \in {2600, 3100} }

\* rows with one defect each: the timestamp unparseable or missing, the
\* field missing, the value NaN, no number, missing, or infinite
DefectRows ==
    { RawRow(BadTime, "humedad", Num(2600)),
      RawRow(NoTime, "temperatura", Num(2600)),
      RawRow(Ts(1), NA_FIELD, Num(2600)),
      RawRow(Ts(1), "humedad", NaN),
      RawRow(Ts(1), "temperatura", BadValue),
      RawRow(Ts(2), "humedad", NoValue),
      RawRow(Ts(2), "humedad", PosInf),
      RawRow(Ts(2), "sensacion_termica", NegInf) }

RowSeqs == UNION { [1..n -> GoodRows \cup DefectRows] : n \in 0..MaxRows }

NoResult == [kind |-> "none", has_time |-> FALSE, tables |-> <<>>]

\* the rows as one DataFrame, and as a list of two tables
Shapes(rows) ==
    { Frame(rows) } \cup (IF rows = <<>> THEN {}
                          ELSE { TableList(<< << Head(rows) >>, Tail(rows) >>) })

NormalizarFeeds ==
    { Engine(d, NoRows) :
        d \in UNION { Shapes(rows) : rows \in RowSeqs }
                \cup { NoResult, NoColumns, TableList(<<>>) } }

InitNormalizar == Defaults /\ Start(NormalizarFeeds)

SpecNormalizar == InitNormalizar /\ [][Run]_vars

\* the environment query of this invocation has returned
DhtReturned == pc \notin {"dht", "halted"}

\* the raw rows the engine returned to the environment query
RawDht == Concat(fetched[DHT].tables)

\* C3 as claimed: query_flux returns no row with a non-finite value, and as
\* many rows as the engine returned with a timestamp and a finite value
C3_OnlyFiniteTimestampedRows ==
    DhtReturned =>
        /\ \A i \in 1..Len(df_dht) : isfinite(df_dht[i].Valor)
        /\ Len(df_dht) = Cardinality({ i \in 1..Len(RawDht) :
                                         /\ RawDht[i]._time.k = "ts"
                                         /\ RawDht[i]._value.k = "num" })

\* x is absent when df has no row of field f, else the Valor of a row of f
\* with the maximum Tiempo
IsLatest(df, f, x) ==
    LET at == { i \in 1..Len(df) : df[i].Variable = f }
    IN  IF at = {} THEN x = NaN
        ELSE \E i \in at : /\ \A j \in at : df[j].Tiempo <= df[i].Tiempo
                           /\ x = df[i].Valor

\* C9: once the KPI section has run, each of temp_now, hum_now and hi_now is
\* absent (NaN) when df_dht has no row of its field, and otherwise the value
\* of that field's row with the maximum timestamp
C9_LatestValue ==
    BadgeShown =>
        /\ IsLatest(df_dht, "temperatura", temp_now)
        /\ IsLatest(df_dht, "humedad", hum_now)
        /\ IsLatest(df_dht, "sensacion_termica", hi_now)

\* C9 witness: the engine returned the later humidity row first, the
\* thermal index has no row
C9_Witness ==
    /\ pc = "sleep"
    /\ RawDht = << RawRow(Ts(2), "humedad", Num(3100)), RawRow(Ts(1), "humedad", Num(2600)) >>
    /\ hum_now = Num(3100)
    /\ hi_now = NaN

----------------------------------------------------------------------------
(* Single invocations over motion feeds: a lead of up to MaxLead readings  *)
(* of one kind, then up to MaxTail readings of another, under every        *)
(* vibration threshold                                                     *)

MaxLead == 2
MaxTail == 20

VibracionFeeds ==
    { Engine(NoRows, MpuFeed(k1, n1, k2, n2)) :
        k1 \in SampleKinds, n1 \in 0..MaxLead,
        k2 \in SampleKinds \ {"dup"}, n2 \in 0..MaxTail }
      \cup { Engine(NoRows, TableList(<<>>)) }

InitVibracion == Sidebar({3000}, { << 3000, 7500 >> }, VibThrs) /\ Start(VibracionFeeds)

SpecVibracion == InitVibracion /\ [][Run]_vars

\* the vibration section of this invocation has run to its end
VibracionDone == pc \in {"alertas", "sleep", "rerun"}

\* the timestamps of df at which all three axes have a row
Aligned(df) ==
    { t \in { df[i].Tiempo : i \in 1..Len(df) } :
        \A c \in ACCEL : \E i \in 1..Len(df) : df[i].Tiempo = t /\ df[i].Variable = c }

\* C4 as claimed: the motion flag series has one entry per sample of the RMS
\* series whose RMS is defined and none for a sample whose RMS is undefined,
\* and each entry is 1 exactly when its RMS exceeds the threshold
C4_OneFlagPerDefinedRms ==
    VibracionDone =>
        /\ Len(mov_df) = Cardinality({ i \in 1..Len(vib_df) : vib_df[i].vib_rms.k # "nan" })
        /\ \A i \in 1..Len(mov_df) :
              /\ \E j \in 1..Len(vib_df) : /\ vib_df[j].Tiempo = mov_df[i].Tiempo
                                           /\ vib_df[j].vib_rms.k # "nan"
                                           /\ (mov_df[i].movimiento = 1)
                                                <=> FGt(vib_df[j].vib_rms, Num(vib_thr))

\* C5 as claimed: with fewer than min_periods fully aligned samples the
\* vibration output is empty: no RMS sample, no motion flag, no chart, and no
\* latest RMS
C5_EmptyBelowMinPeriods ==
    (VibracionDone /\ Cardinality(Aligned(df_mpu)) < MIN_PERIODS) =>
        /\ vib_df = <<>>
        /\ mov_df = <<>>
        /\ ~charts
        /\ vib_rms_now = NaN

\* C6 as claimed: no invocation over rows whose only defects are of data
\* shape ends with an exception
C6_NoRaiseOnDataShape == error = "none"

\* C10: once the alerts are raised, the vibration alert is among them exactly
\* when the latest motion flag is 1
C10_VibAlertIffMovFlag ==
    AlertsShown => ("vib" \in alertas <=> mov_flag_now = 1)

\* C10 witness: one jolt within the window lifts the latest RMS above the
\* threshold; the flag is 1 and the alert is raised
C10_Witness ==
    /\ pc = "sleep"
    /\ fetched[MPU] = MpuFeed("jolt", 1, "still", 19)
    /\ vib_thr = 150
    /\ mov_flag_now = 1
    /\ "vib" \in alertas

----------------------------------------------------------------------------
(* The refresh loop: failures of the engine, and what an invocation reads *)

\* C7 as claimed: in a session left alone, after an invocation in which the
\* query collaborator failed, the script still reaches time.sleep(refresh_s),
\* from where it reruns
C7_FailureReachesSleep == (error = "ApiException") ~> (pc = "sleep")

\* C8 as claimed: the rows an invocation works on are rows the engine
\* returned to that same invocation: each DataFrame it holds once its query
\* has returned is query_flux of a raw result fetched by this invocation
C8_OwnFreshRows ==
    /\ pc \notin {"dht", "halted"} =>
          /\ fetched[DHT] # NotFetched
          /\ df_dht \in query_flux(fetched[DHT]).dfs
    /\ pc \notin {"dht", "mpu", "halted"} =>
          /\ fetched[MPU] # NotFetched
          /\ df_mpu \in query_flux(fetched[MPU]).dfs

====
